---- MODULE Spec2Model ----
(***************************************************************************)
(* dentalClinicBot: the webhook ingress (server.js), the BullMQ queue and  *)
(* its single worker (server.js) and the Playwright automation session     *)
(* (isiclinic.js), as one state machine.  Every await of the source is a   *)
(* step boundary; what runs between two awaits is one atomic action.       *)
(***************************************************************************)
EXTENDS Integers, Sequences, FiniteSets, TLC

\* ---------------------------------------------------------------- bounds
MaxRequests == 2        \* POST /crear-paciente requests of a run
MaxCalls == 1           \* calls of each debug endpoint in a run
MaxPayloadFields == 2   \* keys of a generated payload (SpecSession)

\* ------------------------------------------------------ program constants
Attempts == 3           \* attempts: 3
BackoffDelay == 5000    \* backoff.delay
RemoveOnFail == 50      \* removeOnFail: 50

\* ------------------------------------------------------------ JSON values
\* A JSON scalar: a string or a number (both fields always present, so that
\* values of different types stay comparable).
Str(x) == [t |-> "str", s |-> x, n |-> 0]
Num(k) == [t |-> "num", s |-> "", n |-> k]

\* JavaScript truthiness of a scalar, as `if (datos.f)` evaluates it.
JsTruthy(v) == IF v.t = "str" THEN v.s # "" ELSE v.n # 0

\* String(v) on the scalars of the model.
NumText(k) == IF k = 0 THEN "0" ELSE IF k = 1 THEN "1" ELSE "n"
JsString(v) == IF v.t = "str" THEN v ELSE Str(NumText(v.n))

\* ------------------------------------------------------------ form fields
\* The payload keys rellenarFormularioIsi reads, in the order of its `if`s.
Fields ==
  << "nombre", "apellidos", "telefono", "email", "comentario", "tratamiento",
     "fuente", "dni", "fdn", "sexo", "direccion", "cp", "poblacion",
     "provincia", "pais" >>

FieldSet == {Fields[i] : i \in 1..Len(Fields)}

\* The form control each key is written to.
Selector(f) ==
  CASE f = "nombre" -> "#Tnombre"
    [] f = "apellidos" -> "#Tapellidos"
    [] f = "telefono" -> "#Tmovil"
    [] f = "email" -> "#Temail"
    [] f = "comentario" -> "#Tcomentario"
    [] f = "tratamiento" -> "#Ttratamiento"
    [] f = "fuente" -> "#Tfuente"
    [] f = "dni" -> "#TCIF"
    [] f = "fdn" -> "#Tfechadenacimiento"
    [] f = "sexo" -> "#Tsexo"
    [] f = "direccion" -> "#Tdireccion"
    [] f = "cp" -> "#Tcp"
    [] f = "poblacion" -> "#Tpoblacion"
    [] f = "provincia" -> "#Tprovincia"
    [] f = "pais" -> "#Tpais"

\* One form write: page.fill(sel, v) or page.selectOption(sel, String(v)).
WriteOf(f, v) ==
  IF f = "sexo"
    THEN [field |-> f, sel |-> Selector(f), op |-> "selectOption", val |-> JsString(v)]
    ELSE [field |-> f, sel |-> Selector(f), op |-> "fill", val |-> v]

FieldGuardPresent(datos, f) == f \in DOMAIN datos

\* The guard of one line of the population block: `if (datos.f)`.
FieldGuard(datos, f) == f \in DOMAIN datos /\ JsTruthy(datos[f])

RECURSIVE PlanFromReversed(_, _)
PlanFromReversed(datos, i) ==
  IF i > Len(Fields) THEN << >>
  ELSE IF FieldGuard(datos, Fields[i])
    THEN PlanFromReversed(datos, i + 1) \o << WriteOf(Fields[i], datos[Fields[i]]) >>
    ELSE PlanFromReversed(datos, i + 1)

\* The writes the population block performs for a payload, in order.
RECURSIVE PlanFrom(_, _)
PlanFrom(datos, i) ==
  IF i > Len(Fields) THEN << >>
  ELSE IF FieldGuard(datos, Fields[i])
    THEN << WriteOf(Fields[i], datos[Fields[i]]) >> \o PlanFrom(datos, i + 1)
    ELSE PlanFrom(datos, i + 1)

FillPlan(datos) == PlanFrom(datos, 1)

\* testLogin fills two fixed values, unconditionally.
TestDatos == [nombre |-> Str("Test-Alia"), apellidos |-> Str("Test-Buchar")]
TestPlan == << WriteOf("nombre", TestDatos.nombre), WriteOf("apellidos", TestDatos.apellidos) >>

\* ---------------------------------------------------------------- payloads
ValuesOf(f) == IF f = "sexo" THEN {Str(""), Str("M"), Num(1)} ELSE {Str(""), Str("Ana")}

\* Every payload over the mapped keys with at most MaxPayloadFields keys.
KeySets == {S \in SUBSET FieldSet : Cardinality(S) <= MaxPayloadFields}
WidePayloads == UNION {{d \in [S -> UNION {ValuesOf(f) : f \in S}] :
                          \A f \in S : d[f] \in ValuesOf(f)} : S \in KeySets}

\* The orders in which the keys of a payload can come (Object.keys(datos)).
KeyOrders(d) ==
  {ks \in [1..Cardinality(DOMAIN d) -> DOMAIN d] :
     \A i, j \in DOMAIN ks : ks[i] = ks[j] => i = j}

EmptyPayload == [f \in {} |-> Str("")]
ScenarioAna == [nombre |-> Str("Ana"), apellidos |-> Str("Garcia"), dni |-> Str("12345678A")]
ScenarioKeys == << "nombre", "apellidos", "dni" >>
Bodies == {EmptyPayload, ScenarioAna}

\* Payloads with, without and with an empty `nombre`.
AlertBodies ==
  {ScenarioAna, [dni |-> Str("12345678A")], [nombre |-> Str(""), dni |-> Str("12345678A")]}

\* ----------------------------------------------------------------- state
Owners == {"worker", "debug", "test"}

VARIABLES
  sess,         \* per caller: the invocation of rellenarFormularioIsi / testLogin
  open,         \* the open browsers, each by the invocation that owns it
  dbg,          \* per debug endpoint: requests started, last response status
  env,          \* process.env: WEBHOOK_SECRET
  redis,        \* "up" or "down": whether the Redis connection is usable
  reqs,         \* the POST /crear-paciente requests
  nextId,       \* next job id (Redis INCR)
  store,        \* the jobs Redis holds, by id
  waitQ,        \* the wait list, oldest first
  failedSet,    \* ids of the failed jobs Redis keeps, oldest first
  hist,         \* per job id ever created: what happened to it (history)
  alerts,       \* the texts handed to sendTelegramMessage, oldest first
  tg,           \* sendTelegramMessage: requests in flight and what was logged
  proc          \* the Node process: "running" or "exited"

sessVars == << sess, open >>
pipeVars == << env, redis, reqs, nextId, store, waitQ, failedSet, hist, alerts, tg, proc >>
vars == << sess, open, dbg, env, redis, reqs, nextId, store, waitQ,
           failedSet, hist, alerts, tg, proc >>

NoDetector == [det |-> "none", how |-> "none"]

IdleSession ==
  [pc |-> "idle", datos |-> EmptyPayload, plan |-> << >>, browser |-> FALSE,
   caught |-> "none", result |-> "none", marker |-> "pending",
   input |-> "pending", race |-> "unarmed", first |-> NoDetector,
   writes |-> << >>, shot |-> "none", clicked |-> {}, visited |-> {}]

\* The call of rellenarFormularioIsi(datos) / testLogin(): runs up to the
\* first await, chromium.launch().
NewSession(datos, plan) == [IdleSession EXCEPT !.pc = "launch", !.datos = datos, !.plan = plan]

\* ------------------------------------------------- the automation session
\* The controls the code knows by selector and can click.
LoginSubmit == "button[type=submit]"
SaveButton == "#guardarRegistro"

\* The pages the code navigates to.
LoginUrl == "ISI_URL"
NewPatientUrl == "NEW_PATIENT_URL"

\* catch (error) { ... } of rellenarFormularioIsi / testLogin: the error is
\* held while the error screenshot is taken.
Catch(s, e) == [s EXCEPT !.pc = "catch", !.caught = e]

\* takeScreenshot: every failure inside it is swallowed (try/catch without
\* rethrow), so it only records whether the capture was written.
takeScreenshot(s, ok) == [s EXCEPT !.shot = IF ok THEN "ok" ELSE "failed"]

DetectorOutcomeTimeoutSwallowed(det, how) ==
  IF how = "timeout" THEN "fulfilled"
  ELSE IF det = "marker" THEN "fulfilled" ELSE "AuthenticationError"

\* What each promise handed to Promise.race settles with.
DetectorOutcome(det, how) ==
  IF det = "marker"
    THEN (IF how = "resolved" THEN "fulfilled" ELSE "TimeoutError")
    ELSE (IF how = "resolved" THEN "AuthenticationError" ELSE "TimeoutError")

PromiseRaceLastWins(race, out) == out

\* Promise.race: the first settlement is the result, later ones are ignored.
PromiseRace(race, out) == IF race = "pending" THEN out ELSE race

\* what the function leaves with once browser.close() has been awaited in
\* `finally`: a throwing close replaces the pending return or throw.
FinallyResult(s, closeOk) ==
  IF ~closeOk THEN "CloseError"
  ELSE IF s.caught # "none" THEN s.caught ELSE "ok"

Running(o) == sess[o].pc \notin {"idle", "done"}

\* The open browsers once invocation o is over with its browser not closed:
\* the browser has no owner any more (all such browsers are one "orphan").
Orphaned(o) == (open \ {o}) \cup {"orphan"}

\* The function has returned or thrown: its locals are gone.
Finished(s, result) == [IdleSession EXCEPT !.pc = "done", !.result = result, !.caught = s.caught]

\* await chromium.launch({ headless })
Launch(o) ==
  /\ sess[o].pc = "launch"
  /\ \E ok \in BOOLEAN :
       IF ok
         THEN /\ sess' = [sess EXCEPT ![o].pc = "newPage", ![o].browser = TRUE]
              /\ open' = open \cup {o}
         ELSE /\ sess' = [sess EXCEPT ![o] = Finished(@, "LaunchError")]
              /\ UNCHANGED open

\* await browser.newPage(): outside every try, so a failure leaves the
\* function with the browser still open.
NewPage(o) ==
  /\ sess[o].pc = "newPage"
  /\ \E ok \in BOOLEAN :
       IF ok THEN sess' = [sess EXCEPT ![o].pc = "goto"] /\ UNCHANGED open
       ELSE /\ sess' = [sess EXCEPT ![o] = Finished(@, "NewPageError")]
            /\ open' = Orphaned(o)

\* loginToIsiClinic 1: await page.goto(ISI_URL, timeout 60000)
LoginGoto(o) ==
  /\ sess[o].pc = "goto"
  /\ \E ok \in BOOLEAN :
       sess' = [sess EXCEPT ![o] =
                  IF ok THEN [@ EXCEPT !.pc = "creds", !.visited = @ \cup {LoginUrl}]
                  ELSE Catch([@ EXCEPT !.visited = @ \cup {LoginUrl}], "NavigationError")]
  /\ UNCHANGED open

\* loginToIsiClinic 2: fill user, fill password, click submit; then the two
\* detectors are armed and raced.
Credentials(o) ==
  /\ sess[o].pc = "creds"
  /\ \E ok \in BOOLEAN :
       sess' = [sess EXCEPT ![o] = IF ok THEN [@ EXCEPT !.pc = "race", !.race = "pending",
                                                        !.clicked = @ \cup {LoginSubmit}]
                                   ELSE Catch(@, "CredentialsError")]
  /\ UNCHANGED open

\* One of the two waitForSelector promises settles (element visible, or its
\* 30000 ms timeout).  The first settlement decides the race; a detector
\* that settles later changes nothing.
RaceSettle(o, det, how) ==
  /\ sess[o].race # "unarmed"
  /\ sess[o].pc \in {"race", "netidle", "nav", "anchor", "fill", "shot", "catch", "close"}
  /\ sess[o][det] = "pending"
  /\ LET s == sess[o]
         r == PromiseRace(s.race, DetectorOutcome(det, how))
         t == [s EXCEPT ![det] = how, !.race = r,
                        !.first = IF s.first = NoDetector
                                   THEN [det |-> det, how |-> how] ELSE s.first]
     IN sess' = [sess EXCEPT ![o] =
                   IF s.pc # "race" THEN t
                   ELSE IF r = "fulfilled" THEN [t EXCEPT !.pc = "netidle"]
                   ELSE Catch(t, r)]
  /\ UNCHANGED open

\* loginToIsiClinic 4: await page.waitForLoadState("networkidle")
NetworkIdle(o) ==
  /\ sess[o].pc = "netidle"
  /\ \E ok \in BOOLEAN :
       sess' = [sess EXCEPT ![o] = IF ok THEN [@ EXCEPT !.pc = "nav"]
                                   ELSE Catch(@, "NetworkIdleError")]
  /\ UNCHANGED open

\* await page.goto(NEW_PATIENT_URL, timeout 60000)
FormGoto(o) ==
  /\ sess[o].pc = "nav"
  /\ \E ok \in BOOLEAN :
       sess' = [sess EXCEPT ![o] =
                  IF ok THEN [@ EXCEPT !.pc = "anchor", !.visited = @ \cup {NewPatientUrl}]
                  ELSE Catch([@ EXCEPT !.visited = @ \cup {NewPatientUrl}], "NavigationError")]
  /\ UNCHANGED open

\* await page.waitForSelector("#Tnombre"); with nothing to write the code
\* runs on to the success screenshot.
Anchor(o) ==
  /\ sess[o].pc = "anchor"
  /\ \E ok \in BOOLEAN :
       sess' = [sess EXCEPT ![o] =
                  IF ok THEN [@ EXCEPT !.pc = IF sess[o].plan = << >> THEN "shot" ELSE "fill"]
                  ELSE Catch(@, "FormNotReadyError")]
  /\ UNCHANGED open

\* The next awaited page.fill / page.selectOption of the population block.
Fill(o) ==
  /\ sess[o].pc = "fill"
  /\ \E ok \in BOOLEAN :
       LET s == sess[o]
           w == s.plan[Len(s.writes) + 1]
       IN sess' = [sess EXCEPT ![o] =
                     IF ok THEN [s EXCEPT !.writes = Append(@, w),
                                          !.pc = IF Len(s.writes) + 1 = Len(s.plan)
                                                   THEN "shot" ELSE "fill"]
                     ELSE Catch(s, "PopulateError")]
  /\ UNCHANGED open

AfterPopulateSave(s) == [s EXCEPT !.clicked = @ \cup {SaveButton}]

\* What the code does between the population block and the success
\* screenshot: nothing (the click on #guardarRegistro is commented out).
AfterPopulate(s) == s

\* await takeScreenshot(page, "paciente_rellenado"); return {...} -> finally
SuccessShot(o) ==
  /\ sess[o].pc = "shot"
  /\ \E ok \in BOOLEAN :
       sess' = [sess EXCEPT ![o] = [takeScreenshot(AfterPopulate(@), ok) EXCEPT !.pc = "close"]]
  /\ UNCHANGED open

\* catch: await takeScreenshot(page, "formulario_error"); throw error -> finally
ErrorShot(o) ==
  /\ sess[o].pc = "catch"
  /\ \E ok \in BOOLEAN :
       sess' = [sess EXCEPT ![o] = [takeScreenshot(@, ok) EXCEPT !.pc = "close"]]
  /\ UNCHANGED open

\* finally { await browser.close() }: a close that rejects may or may not
\* have ended the browser process.
Close(o) ==
  /\ sess[o].pc = "close"
  /\ \E ok \in BOOLEAN, gone \in BOOLEAN :
       /\ ok => gone
       /\ sess' = [sess EXCEPT ![o] = Finished(@, FinallyResult(@, ok))]
       /\ open' = IF gone THEN open \ {o} ELSE Orphaned(o)

SessionStep(o) ==
  \/ Launch(o) \/ NewPage(o) \/ LoginGoto(o) \/ Credentials(o)
  \/ \E det \in {"marker", "input"}, how \in {"resolved", "timeout"} : RaceSettle(o, det, how)
  \/ NetworkIdle(o) \/ FormGoto(o) \/ Anchor(o) \/ Fill(o)
  \/ SuccessShot(o) \/ ErrorShot(o) \/ Close(o)

\* The steps of a session that wait under a timeout: the explicit ones
\* (page.goto 60000, waitForSelector 30000 / 20000) and the ones left to
\* Playwright's default timeout (launch, fill, click, selectOption,
\* waitForLoadState, screenshot).
Timed(o) ==
  \/ Launch(o) \/ LoginGoto(o) \/ Credentials(o)
  \/ \E det \in {"marker", "input"}, how \in {"resolved", "timeout"} : RaceSettle(o, det, how)
  \/ NetworkIdle(o) \/ FormGoto(o) \/ Anchor(o) \/ Fill(o)
  \/ SuccessShot(o) \/ ErrorShot(o)

\* The steps that are awaited with no timeout at all: browser.newPage() and
\* browser.close() take none, and the code sets no timer of its own.
Untimed(o) == NewPage(o) \/ Close(o)

\* ------------------------------------------------------- debug endpoints
\* POST /rellenar-isiclinic: runs rellenarFormularioIsi(req.body) inline;
\* ks is the order of the keys of req.body.
DebugStart(d, ks) ==
  /\ sess["debug"].pc = "idle"
  /\ dbg["debug"].n < MaxCalls
  /\ sess' = [sess EXCEPT !["debug"] = NewSession(d, FillPlan(d))]
  /\ dbg' = [dbg EXCEPT !["debug"] = [n |-> @.n + 1, status |-> 0, keys |-> ks]]
  /\ UNCHANGED << open, pipeVars >>

\* GET /test-login: runs testLogin() inline.
TestStart ==
  /\ sess["test"].pc = "idle"
  /\ dbg["test"].n < MaxCalls
  /\ sess' = [sess EXCEPT !["test"] = NewSession(TestDatos, TestPlan)]
  /\ dbg' = [dbg EXCEPT !["test"] = [n |-> @.n + 1, status |-> 0, keys |-> << >>]]
  /\ UNCHANGED << open, pipeVars >>

\* res.json(...) on a result, res.status(500).json(...) on a thrown error.
DebugRespond(o) ==
  /\ o \in {"debug", "test"}
  /\ sess[o].pc = "done"
  /\ dbg' = [dbg EXCEPT ![o].status = IF sess[o].result = "ok" THEN 200 ELSE 500]
  /\ sess' = [sess EXCEPT ![o] = IdleSession]
  /\ UNCHANGED << open, pipeVars >>

\* ------------------------------------------------------------ the queue
\* An optional string (a header, an environment variable): << >> or << s >>.
None == << >>
Some(x) == << x >>

\* `x || ""` on an optional string.
OrEmpty(x) == IF x = None THEN "" ELSE x[1]

\* `!x` on an optional string: undefined and "" are falsy.
Falsy(x) == x = None \/ x[1] = ""

\* process.env, as far as the program reads it.
EnvOf(secret, token, chat) ==
  [WEBHOOK_SECRET |-> secret, TELEGRAM_BOT_TOKEN |-> token, TELEGRAM_CHAT_ID |-> chat]

\* req.body: missing (None), or the parsed object.
RequestBodies == {None} \cup {Some(b) : b \in Bodies}

Headers == {None, Some(""), Some("s3cret"), Some("wrong")}
Secrets == {None, Some(""), Some("s3cret")}

SecretRefusedCompareOnly(header, configured) == OrEmpty(header) # OrEmpty(configured)

\* The first `if` of POST /crear-paciente: TRUE when the request is refused.
SecretRefused(header, configured) ==
  LET secret == OrEmpty(header)
  IN Falsy(configured) \/ secret # OrEmpty(configured)

EmptyBodyMissingOnly(datos) == datos = None

\* `!datos || Object.keys(datos).length === 0` on an optional body
EmptyBody(datos) == datos = None \/ DOMAIN datos[1] = {}

JobOptsKeepCompleted == [attempts |-> Attempts, backoff |-> BackoffDelay,
                         removeOnComplete |-> FALSE, removeOnFail |-> RemoveOnFail]

\* The options every job is added with.
JobOpts == [attempts |-> Attempts, backoff |-> BackoffDelay,
            removeOnComplete |-> TRUE, removeOnFail |-> RemoveOnFail]

RECURSIVE Pow2(_)
Pow2(k) == IF k <= 0 THEN 1 ELSE 2 * Pow2(k - 1)

BackoffFixed(opts, k) == opts.backoff

\* backoff { type: 'exponential', delay }: the wait after the k-th failure.
Backoff(opts, k) == opts.backoff * Pow2(k - 1)

\* Whether a failed job is scheduled again (else it has failed for good).
RetryDueNever(job) == FALSE

RetryDue(job) == job.attemptsMade < job.opts.attempts

EscalationDueOnEveryFailure(job) == job.attemptsMade >= 1

\* The guard of worker.on('failed').
EscalationDue(job) == job.attemptsMade >= job.opts.attempts

\* The text of the alert, by its parts.
AlertTextNoPayload(id, job, err) ==
  [id |-> id,
   nombre |-> IF FieldGuard(job.data, "nombre") THEN JsString(job.data["nombre"]) ELSE Str("N/A"),
   attempts |-> job.opts.attempts, error |-> err, datos |-> EmptyPayload]

AlertText(id, job, err) ==
  [id |-> id,
   nombre |-> IF FieldGuard(job.data, "nombre") THEN JsString(job.data["nombre"]) ELSE Str("N/A"),
   attempts |-> job.opts.attempts, error |-> err, datos |-> job.data]

NoTelegram == [inflight |-> 0, fetches |-> 0, warned |-> 0, delivered |-> 0,
               errors |-> 0, rejected |-> 0]

TelegramConfiguredTokenOnly(e) == ~Falsy(e.TELEGRAM_BOT_TOKEN)

\* `if (!token || !chatId) { log.warn(...); return; }` is not taken.
TelegramConfigured(e) == ~(Falsy(e.TELEGRAM_BOT_TOKEN) \/ Falsy(e.TELEGRAM_CHAT_ID))

\* sendTelegramMessage(text) up to its first await: the warning and the
\* return, or the one fetch(...) call.
sendTelegramMessage(t, e) ==
  IF TelegramConfigured(e)
    THEN [t EXCEPT !.inflight = @ + 1, !.fetches = @ + 1]
    ELSE [t EXCEPT !.warned = @ + 1]

\* `await fetch(...)` settles: log.info when it resolved (whatever the HTTP
\* status), catch -> log.error when it rejected.  Either way the promise of
\* sendTelegramMessage is fulfilled.
FetchSettled(t, ok) ==
  IF ok THEN [t EXCEPT !.inflight = @ - 1, !.delivered = @ + 1]
        ELSE [t EXCEPT !.inflight = @ - 1, !.errors = @ + 1]

\* worker.on('failed'): the alerts after the handler has run for (job, err).
OnFailed(id, job, err) ==
  IF EscalationDue(job) THEN Append(alerts, AlertText(id, job, err)) ELSE alerts

\* removeOnFail: N keeps the N most recent failed jobs.
KeepAll(s, n) == s

KeepLast(s, n) == IF Len(s) <= n THEN s ELSE SubSeq(s, Len(s) - n + 1, Len(s))

NewHist(r) == [req |-> r, deliveries |-> 0, calls |-> 0, fails |-> 0, succeeded |-> FALSE,
               lastCaught |-> "none", waited |-> 0, nth |-> 0]

\* How many jobs have failed for good so far.
TerminalFailures == Cardinality({i \in DOMAIN hist : hist[i].nth > 0})

NoReq == [pc |-> "new", header |-> None, body |-> None, status |-> 0, job |-> 0,
          downAtAdd |-> FALSE]

Requests == 1..MaxRequests

\* POST /crear-paciente up to `await pacienteQueue.add(...)`: the secret
\* check, the body check, then the add command is issued.
Receive(r, h, d) ==
  /\ reqs[r].pc = "new"
  /\ \A q \in Requests : q < r => reqs[q].pc # "new"
  /\ LET q == [reqs[r] EXCEPT !.header = h, !.body = d]
     IN reqs' = [reqs EXCEPT ![r] =
                   IF SecretRefused(h, env.WEBHOOK_SECRET)
                     THEN [q EXCEPT !.pc = "done", !.status = 401]
                   ELSE IF EmptyBody(d)
                     THEN [q EXCEPT !.pc = "done", !.status = 400]
                   ELSE [q EXCEPT !.pc = "adding", !.downAtAdd = (redis = "down")]]
  /\ UNCHANGED << sessVars, dbg, env, redis, nextId, store, waitQ, failedSet, hist, alerts, tg, proc >>

\* Redis runs the add command: the job exists and waits.  With
\* maxRetriesPerRequest: null a command issued while Redis is unreachable
\* stays queued in the client until the connection is back.
AddPersist(r) ==
  /\ reqs[r].pc = "adding"
  /\ redis = "up"
  /\ store' = [i \in DOMAIN store \cup {nextId} |->
                 IF i = nextId
                   THEN [data |-> reqs[r].body[1], opts |-> JobOpts, attemptsMade |-> 0,
                         state |-> "wait", delay |-> 0, failedReason |-> "none"]
                   ELSE store[i]]
  /\ waitQ' = Append(waitQ, nextId)
  /\ hist' = [i \in DOMAIN hist \cup {nextId} |-> IF i = nextId THEN NewHist(r) ELSE hist[i]]
  /\ reqs' = [reqs EXCEPT ![r].pc = "persisted", ![r].job = nextId]
  /\ nextId' = nextId + 1
  /\ UNCHANGED << sessVars, dbg, env, redis, failedSet, alerts, tg, proc >>

AddReturnAfterProcessing(r) ==
  /\ reqs[r].pc = "persisted"
  /\ reqs[r].job \notin DOMAIN store \/ store[reqs[r].job].state \in {"completed", "failed"}
  /\ reqs' = [reqs EXCEPT ![r].pc = "done", ![r].status = 202]
  /\ UNCHANGED << sessVars, dbg, env, redis, nextId, store, waitQ, failedSet, hist, alerts, tg, proc >>

\* The add promise resolves: log, then res.status(202).json({..., id: job.id}).
AddReturn(r) ==
  /\ reqs[r].pc = "persisted"
  /\ reqs' = [reqs EXCEPT ![r].pc = "done", ![r].status = 202]
  /\ UNCHANGED << sessVars, dbg, env, redis, nextId, store, waitQ, failedSet, hist, alerts, tg, proc >>

\* Redis answers the add command with an error: catch -> 500.
AddReject(r) ==
  /\ reqs[r].pc = "adding"
  /\ redis = "up"
  /\ reqs' = [reqs EXCEPT ![r].pc = "done", ![r].status = 500]
  /\ UNCHANGED << sessVars, dbg, env, redis, nextId, store, waitQ, failedSet, hist, alerts, tg, proc >>

\* The worker takes the oldest waiting job (one at a time: concurrency is
\* left at its default, 1) and calls the processor, which runs up to the
\* first await inside rellenarFormularioIsi(job.data).
WorkerFetch ==
  /\ redis = "up"
  /\ sess["worker"].pc = "idle"
  /\ waitQ # << >>
  /\ LET id == Head(waitQ)
     IN /\ store' = [store EXCEPT ![id].state = "active"]
        /\ waitQ' = Tail(waitQ)
        /\ sess' = [sess EXCEPT !["worker"] = NewSession(store[id].data, FillPlan(store[id].data))]
        /\ hist' = [hist EXCEPT ![id].deliveries = @ + 1, ![id].calls = @ + 1]
  /\ UNCHANGED << open, dbg, env, redis, reqs, nextId, failedSet, alerts, tg, proc >>

ActiveJob == CHOOSE id \in DOMAIN store : store[id].state = "active"

\* The processor returns the result or rethrows the error; the queue moves
\* the job (completed and removed; or delayed for a retry; or failed), and
\* the 'completed' / 'failed' listener runs.
WorkerSettle ==
  /\ redis = "up"
  /\ sess["worker"].pc = "done"
  /\ LET id == ActiveJob
         err == sess["worker"].result
         job == [store[id] EXCEPT !.attemptsMade = @ + 1]
     IN IF err = "ok"
          THEN /\ store' = IF store[id].opts.removeOnComplete
                             THEN [i \in DOMAIN store \ {id} |-> store[i]]
                             ELSE [store EXCEPT ![id].state = "completed",
                                                ![id].attemptsMade = @ + 1]
               /\ hist' = [hist EXCEPT ![id].succeeded = TRUE]
               /\ UNCHANGED << failedSet, alerts, tg >>
          ELSE /\ hist' = [hist EXCEPT ![id].fails = @ + 1, ![id].waited = 0,
                                       ![id].lastCaught = IF RetryDue(job) THEN @
                                                          ELSE sess["worker"].caught,
                                       ![id].nth = IF RetryDue(job) THEN @
                                                   ELSE TerminalFailures + 1]
               /\ alerts' = OnFailed(id, job, err)
               /\ tg' = IF EscalationDue(job) THEN sendTelegramMessage(tg, env) ELSE tg
               /\ IF RetryDue(job)
                    THEN /\ store' = [store EXCEPT ![id] =
                                        [job EXCEPT !.state = "delayed",
                                                    !.delay = Backoff(job.opts, job.attemptsMade)]]
                         /\ UNCHANGED failedSet
                    ELSE LET kept == KeepLast(Append(failedSet, id), job.opts.removeOnFail)
                             gone == {failedSet[i] : i \in 1..Len(failedSet)}
                                       \ {kept[i] : i \in 1..Len(kept)}
                         IN /\ failedSet' = kept
                            /\ store' = [i \in DOMAIN store \ gone |->
                                           IF i = id THEN [job EXCEPT !.state = "failed", !.failedReason = err]
                                           ELSE store[i]]
  /\ sess' = [sess EXCEPT !["worker"] = IdleSession]
  /\ UNCHANGED << open, dbg, env, redis, reqs, nextId, waitQ, proc >>

\* BackoffDelay milliseconds pass.
Tick ==
  /\ \E id \in DOMAIN store : store[id].state = "delayed" /\ store[id].delay > 0
  /\ store' = [id \in DOMAIN store |->
                 IF store[id].state = "delayed" /\ store[id].delay > 0
                   THEN [store[id] EXCEPT !.delay = @ - BackoffDelay]
                   ELSE store[id]]
  /\ hist' = [id \in DOMAIN hist |->
                IF id \in DOMAIN store /\ store[id].state = "delayed" /\ store[id].delay > 0
                  THEN [hist[id] EXCEPT !.waited = @ + BackoffDelay]
                  ELSE hist[id]]
  /\ UNCHANGED << sessVars, dbg, env, redis, reqs, nextId, waitQ, failedSet, alerts, tg, proc >>

\* A delayed job whose backoff has elapsed goes back to the wait list.
Promote(id) ==
  /\ redis = "up"
  /\ store[id].state = "delayed"
  /\ store[id].delay <= 0
  /\ store' = [store EXCEPT ![id].state = "wait"]
  /\ waitQ' = Append(waitQ, id)
  /\ UNCHANGED << sessVars, dbg, env, redis, reqs, nextId, failedSet, hist, alerts, tg, proc >>

\* The fetch of one sendTelegramMessage call settles.
TelegramSettle ==
  /\ tg.inflight > 0
  /\ \E ok \in BOOLEAN : tg' = FetchSettled(tg, ok)
  /\ UNCHANGED << sessVars, dbg, env, redis, reqs, nextId, store, waitQ, failedSet, hist, alerts, proc >>

\* The Redis connection drops / comes back.
RedisDown ==
  /\ redis = "up"
  /\ redis' = "down"
  /\ UNCHANGED << sessVars, dbg, env, reqs, nextId, store, waitQ, failedSet, hist, alerts, tg, proc >>

RedisUp ==
  /\ redis = "down"
  /\ redis' = "up"
  /\ UNCHANGED << sessVars, dbg, env, reqs, nextId, store, waitQ, failedSet, hist, alerts, tg, proc >>

\* The process is told to stop (SIGTERM, SIGINT, a stopped container).  The
\* code registers no handler and never closes the worker, so the process
\* ends where it stands: what it was awaiting is dropped, and the browser
\* it had launched dies with it or stays behind.
Shutdown ==
  /\ proc = "running"
  /\ proc' = "exited"
  /\ \E killed \in BOOLEAN :
       open' = IF killed \/ open = {} THEN {} ELSE {"orphan"}
  /\ UNCHANGED << sess, dbg, env, redis, reqs, nextId, store, waitQ, failedSet, hist, alerts, tg >>

\* ------------------------------------------------------- specifications
IngressStep(r) ==
  \/ \E h \in Headers, d \in RequestBodies : Receive(r, h, d)
  \/ AddPersist(r)
  \/ AddReturn(r)
  \/ AddReject(r)

WorkerStep == SessionStep("worker") /\ UNCHANGED << dbg, pipeVars >>

QueueStep ==
  \/ WorkerFetch
  \/ WorkerStep
  \/ WorkerSettle
  \/ Tick
  \/ \E id \in DOMAIN store : Promote(id)

InitCommon ==
  /\ sess = [o \in Owners |-> IdleSession]
  /\ open = {}
  /\ dbg = [o \in {"debug", "test"} |-> [n |-> 0, status |-> 0, keys |-> << >>]]
  /\ reqs = [r \in Requests |-> NoReq]
  /\ nextId = 1
  /\ store = << >>
  /\ waitQ = << >>
  /\ failedSet = << >>
  /\ hist = << >>
  /\ alerts = << >>
  /\ tg = NoTelegram
  /\ proc = "running"

\* The pipeline with Redis reachable: ingress, queue, worker, escalation.
Init ==
  /\ InitCommon
  /\ env \in {EnvOf(s, None, None) : s \in Secrets}
  /\ redis = "up"

Next ==
  \/ \E r \in Requests : IngressStep(r)
  \/ QueueStep

Spec == Init /\ [][Next]_vars

\* The pipeline for one submission, with a Redis connection that drops and
\* comes back.
InitOutage ==
  /\ InitCommon
  /\ env = EnvOf(Some("s3cret"), None, None)
  /\ redis \in {"up", "down"}

NextOutage ==
  \/ IngressStep(1)
  \/ QueueStep
  \/ RedisDown
  \/ RedisUp

SpecOutage == InitOutage /\ [][NextOutage]_vars

\* The pipeline for one submission, with one debug request made while it
\* runs.

InitDebug ==
  /\ InitCommon
  /\ env = EnvOf(Some("s3cret"), None, None)
  /\ redis = "up"

NextDebug ==
  \/ IngressStep(1)
  \/ QueueStep
  \/ dbg["test"].n = 0 /\ DebugStart(ScenarioAna, ScenarioKeys)
  \/ dbg["debug"].n = 0 /\ TestStart
  \/ \E o \in {"debug", "test"} : SessionStep(o) /\ UNCHANGED << dbg, pipeVars >>
  \/ \E o \in {"debug", "test"} : DebugRespond(o)

SpecDebug == InitDebug /\ [][NextDebug]_vars

\* The pipeline for one submission in a process that can be stopped at any
\* moment.
NextShutdown ==
  \/ proc = "running" /\ IngressStep(1)
  \/ proc = "running" /\ QueueStep
  \/ Shutdown

SpecShutdown == InitDebug /\ [][NextShutdown]_vars

\* The pipeline for one submission, where every step of the worker's session
\* that waits under a timeout is eventually taken.
NextLive ==
  \/ IngressStep(1)
  \/ QueueStep

SpecLive ==
  /\ InitDebug
  /\ [][NextLive]_vars
  /\ WF_vars(Timed("worker") /\ UNCHANGED << dbg, pipeVars >>)

\* The pipeline for one submission with the valid secret, under every
\* Telegram configuration, with the fetch of the alert settling either way.
TelegramTokens == {None, Some(""), Some("123:abc")}
TelegramChats == {None, Some("42")}

InitNotify ==
  /\ InitCommon
  /\ env \in {EnvOf(Some("s3cret"), t, c) : t \in TelegramTokens, c \in TelegramChats}
  /\ redis = "up"

NextNotify ==
  \/ \E d \in AlertBodies : Receive(1, Some("s3cret"), Some(d))
  \/ AddPersist(1)
  \/ AddReturn(1)
  \/ AddReject(1)
  \/ QueueStep
  \/ TelegramSettle

SpecNotify == InitNotify /\ [][NextNotify]_vars

\* The pipeline for one submission, started when the failed set already
\* holds RemoveOnFail - 1 or RemoveOnFail jobs of earlier submissions, each
\* failed for good after its three attempts.
ArchivedJob ==
  [data |-> ScenarioAna, opts |-> JobOpts, attemptsMade |-> Attempts,
   state |-> "failed", delay |-> 0, failedReason |-> "TimeoutError"]

ArchivedHist(i) ==
  [NewHist(0) EXCEPT !.deliveries = Attempts, !.calls = Attempts, !.fails = Attempts,
                     !.lastCaught = "TimeoutError", !.nth = i]

InitArchive ==
  /\ sess = [o \in Owners |-> IdleSession]
  /\ open = {}
  /\ dbg = [o \in {"debug", "test"} |-> [n |-> 0, status |-> 0, keys |-> << >>]]
  /\ reqs = [r \in Requests |-> NoReq]
  /\ env = EnvOf(Some("s3cret"), None, None)
  /\ redis = "up"
  /\ \E n \in {RemoveOnFail - 1, RemoveOnFail} :
       /\ nextId = n + 1
       /\ store = [i \in 1..n |-> ArchivedJob]
       /\ failedSet = [i \in 1..n |-> i]
       /\ hist = [i \in 1..n |-> ArchivedHist(i)]
       /\ alerts = [i \in 1..n |-> AlertText(i, ArchivedJob, "TimeoutError")]
  /\ waitQ = << >>
  /\ tg = [NoTelegram EXCEPT !.warned = Len(alerts)]
  /\ proc = "running"

SpecArchive == InitArchive /\ [][NextLive]_vars

\* One invocation of rellenarFormularioIsi with any payload, or of
\* testLogin, through its debug endpoint.
NoDebugYet == dbg["debug"].n = 0 /\ dbg["test"].n = 0

InitSession ==
  /\ InitCommon
  /\ env = EnvOf(None, None, None)
  /\ redis = "down"

NextSession ==
  \/ \E d \in WidePayloads : \E ks \in KeyOrders(d) : NoDebugYet /\ DebugStart(d, ks)
  \/ NoDebugYet /\ TestStart
  \/ \E o \in {"debug", "test"} : SessionStep(o) /\ UNCHANGED << dbg, pipeVars >>
  \/ \E o \in {"debug", "test"} : DebugRespond(o)

SpecSession == InitSession /\ [][NextSession]_vars

\* ------------------------------------------------------------ properties
InQueue(id) == \E i \in 1..Len(waitQ) : waitQ[i] = id

EscalationsOf(id) == Cardinality({i \in 1..Len(alerts) : alerts[i].id = id})

\* C1: a job whose automation fails on every delivery is handed to the
\* automation exactly Attempts = 3 times (one call per delivery), is not
\* delivered again once it has failed for the third time, and is escalated
\* exactly once, at the third failure and at no earlier one.
C1_ThreeAttemptsOneEscalation ==
  \A id \in DOMAIN hist :
    LET h == hist[id]
    IN /\ h.calls = h.deliveries
       /\ h.calls <= Attempts
       /\ h.fails <= h.calls
       /\ EscalationsOf(id) = (IF h.fails = Attempts THEN 1 ELSE 0)
       /\ h.fails = Attempts =>
            /\ Attempts = 3
            /\ h.calls = Attempts
            /\ ~h.succeeded
            /\ store[id].state = "failed"
            /\ ~InQueue(id)

C1_Witness ==
  \E id \in DOMAIN hist :
    hist[id].fails = 3 /\ hist[id].calls = 3 /\ EscalationsOf(id) = 1

\* C2: a job whose automation succeeds on attempt k <= 3, after k-1 failed
\* attempts, is never escalated, is removed from the queue on completion and
\* is never delivered again.
C2_SuccessPurgedNoEscalation ==
  \A id \in DOMAIN hist :
    hist[id].succeeded =>
      /\ hist[id].calls = hist[id].fails + 1
      /\ hist[id].calls <= Attempts
      /\ EscalationsOf(id) = 0
      /\ id \notin DOMAIN store
      /\ ~InQueue(id)

C2_Witness ==
  \E id \in DOMAIN hist : hist[id].succeeded /\ hist[id].fails = 2 /\ hist[id].calls = 3

\* The sessions that hold an open browser.
OpenSessions == {o \in Owners : o \in open}

\* C3: at most one automation session has an open browser at any time,
\* whatever the worker and the debug endpoints do.
C3_AtMostOneSession == Cardinality(OpenSessions) <= 1

\* C4: no browser stays open once the invocation that launched it has
\* returned or thrown.
C4_BrowserClosedOnEveryPath ==
  /\ "orphan" \notin open
  /\ \A o \in Owners : ~Running(o) => o \notin open

\* Whether the header is exactly the configured, non-empty secret.
ExactSecret(header, configured) ==
  /\ header # None
  /\ configured # None
  /\ configured[1] # ""
  /\ header[1] = configured[1]

JobsOf(r) == {id \in DOMAIN hist : hist[id].req = r}

\* C5: a request whose X-Webhook-Secret is not the configured secret, or
\* that is made while no secret or an empty one is configured, is answered
\* 401 and enqueues nothing, whatever its body; only a request whose header
\* equals a non-empty configured secret gets past the check.
C5_SecretCheck ==
  \A r \in Requests :
    reqs[r].pc # "new" =>
      IF ExactSecret(reqs[r].header, env.WEBHOOK_SECRET)
        THEN reqs[r].status # 401
        ELSE reqs[r].status = 401 /\ reqs[r].job = 0 /\ JobsOf(r) = {}

C5_Witness ==
  \E r \in Requests :
    /\ reqs[r].status = 401
    /\ reqs[r].header = Some("")
    /\ env.WEBHOOK_SECRET = Some("")
    /\ reqs[r].body = Some(ScenarioAna)

\* C6: a 202 is sent only for a request whose job has been persisted, and
\* carries that job's id; and neither the persisting nor the response waits
\* for the worker: each is possible as soon as the request has reached it,
\* whatever the worker is doing and whatever is queued.
C6_AcceptedAfterPersistNoWait ==
  \A r \in Requests :
    /\ reqs[r].status = 202 => reqs[r].job \in JobsOf(r)
    /\ reqs[r].pc = "adding" /\ redis = "up" => ENABLED AddPersist(r)
    /\ reqs[r].pc = "persisted" => reqs[r].job \in JobsOf(r) /\ ENABLED AddReturn(r)

C6_Witness ==
  \E r \in Requests :
    /\ reqs[r].status = 202
    /\ Running("worker")
    /\ InQueue(reqs[r].job)
    /\ hist[reqs[r].job].deliveries = 0

\* C7: a submission made while Redis is unreachable is answered 500 and
\* creates no job.
C7_UnreachableGives500 ==
  \A r \in Requests :
    reqs[r].downAtAdd /\ reqs[r].pc = "done" => reqs[r].status = 500 /\ JobsOf(r) = {}

Detector(det, how) == [det |-> det, how |-> how]

\* C8: the detector that settles first decides the login.  When the login
\* input is seen first the session holds the authentication error and goes
\* to the error screenshot and the close without navigating to the form or
\* writing a field; when the marker is seen first the login has succeeded
\* and no later settlement of the other detector turns it into a failure.
C8_FirstDetectorDecides ==
  \A o \in Owners :
    LET s == sess[o]
    IN /\ s.first = Detector("input", "resolved") =>
            /\ s.race = "AuthenticationError"
            /\ s.caught = "AuthenticationError"
            /\ s.pc \in {"catch", "close"}
            /\ s.writes = << >>
       /\ s.first = Detector("marker", "resolved") =>
            /\ s.race = "fulfilled"
            /\ s.caught \notin {"AuthenticationError", "TimeoutError"}
            /\ s.pc \in {"netidle", "nav", "anchor", "fill", "shot", "catch", "close"}

C8_Witness ==
  \E o \in Owners :
    /\ sess[o].first = Detector("marker", "resolved")
    /\ sess[o].input = "resolved"
    /\ sess[o].pc = "close"
    /\ sess[o].caught = "none"
    /\ Len(sess[o].writes) = 2

Written(s, f) == \E i \in 1..Len(s.writes) : s.writes[i].field = f

C10_OriginalErrorLeaves ==
  /\ \A o \in Owners :
       sess[o].pc = "done" /\ sess[o].caught # "none" => sess[o].result = sess[o].caught
  /\ \A id \in DOMAIN store :
       store[id].state = "failed" /\ hist[id].lastCaught # "none" =>
         store[id].failedReason = hist[id].lastCaught

\* C11: a failed job is not delivered again before its backoff has elapsed:
\* a job that waits for, or is in, its delivery after k failed attempts has
\* spent at least 5000 ms x 2^(k-1) delayed since its k-th failure (5 s
\* before attempt 2, 10 s before attempt 3), and a delayed job whose backoff
\* has not elapsed is not in the wait list.
C11_BackoffElapsedBeforeRetry ==
  \A id \in DOMAIN store :
    LET k == store[id].attemptsMade
        w == hist[id].waited
    IN /\ store[id].state \in {"wait", "active"} /\ k >= 1 => w >= 5000 * Pow2(k - 1)
       /\ store[id].state \in {"wait", "active"} /\ k = 1 => w >= 5000
       /\ store[id].state \in {"wait", "active"} /\ k = 2 => w >= 10000
       /\ store[id].state = "delayed" /\ w < 5000 * Pow2(k - 1) => ~InQueue(id)

C11_Witness ==
  \E id \in DOMAIN store :
    /\ store[id].state = "active"
    /\ store[id].attemptsMade = 2
    /\ hist[id].deliveries = 3
    /\ hist[id].waited = 10000

\* C12: a request with the valid secret and a missing or empty body is
\* answered 400 and creates no job; every job was created by a request with
\* the valid secret and a non-empty body, and holds that body.
C12_EmptyBodyRefused ==
  /\ \A r \in Requests :
       /\ reqs[r].pc # "new"
       /\ ExactSecret(reqs[r].header, env.WEBHOOK_SECRET)
       /\ reqs[r].body \in {None, Some(EmptyPayload)}
       => reqs[r].status = 400 /\ reqs[r].job = 0 /\ JobsOf(r) = {}
  /\ \A id \in DOMAIN hist :
       LET q == reqs[hist[id].req]
       IN /\ ExactSecret(q.header, env.WEBHOOK_SECRET)
          /\ q.body # None
          /\ DOMAIN q.body[1] # {}
          /\ id \in DOMAIN store => store[id].data = q.body[1]

C12_Witness ==
  \E r1, r2 \in Requests :
    /\ reqs[r1].body = None /\ reqs[r1].status = 400
    /\ reqs[r2].body = Some(EmptyPayload) /\ reqs[r2].status = 400
    /\ reqs[r1].header = Some("s3cret") /\ reqs[r2].header = Some("s3cret")

\* C13: no invocation clicks the form's save button: the only click is the
\* login submit, every write is a fill or a select, and the success
\* screenshot is taken once the whole population block has run, right
\* before the function returns through `finally`.
C13_NeverSaves ==
  \A o \in Owners :
    LET s == sess[o]
    IN /\ SaveButton \notin s.clicked
       /\ s.clicked \subseteq {LoginSubmit}
       /\ \A i \in 1..Len(s.writes) : s.writes[i].op \in {"fill", "selectOption"}
       /\ s.shot # "none" /\ s.caught = "none" => s.writes = s.plan /\ s.pc = "close"
       /\ s.pc = "close" /\ s.caught = "none" => s.shot # "none" /\ s.writes = s.plan

C13_Witness ==
  LET s == sess["debug"]
  IN /\ s.pc = "close"
     /\ s.caught = "none"
     /\ s.shot = "ok"
     /\ Len(s.writes) = 2
     /\ s.clicked = {LoginSubmit}

\* The place of a field in the fixed order.
Pos(f) == CHOOSE i \in 1..Len(Fields) : Fields[i] = f

\* The fields of the payload that get written, in the fixed order.
ExpectedOrder(datos) ==
  SelectSeq(Fields, LAMBDA f : f \in DOMAIN datos /\ JsTruthy(datos[f]))

\* C14: the fields are written in the fixed order nombre, apellidos, ...,
\* pais, whatever the order of the payload's keys: the written fields are a
\* subsequence of the fixed order, and the sequence of writes is decided by
\* the payload's key-value mapping alone.
C14_FixedWriteOrder ==
  LET s == sess["debug"]
  IN /\ Fields = << "nombre", "apellidos", "telefono", "email", "comentario",
                    "tratamiento", "fuente", "dni", "fdn", "sexo", "direccion",
                    "cp", "poblacion", "provincia", "pais" >>
     /\ \A i, j \in 1..Len(s.writes) :
          i < j => Pos(s.writes[i].field) < Pos(s.writes[j].field)
     /\ Len(s.writes) <= Len(ExpectedOrder(s.datos))
     /\ \A i \in 1..Len(s.writes) : s.writes[i].field = ExpectedOrder(s.datos)[i]

C14_Witness ==
  LET s == sess["debug"]
  IN /\ dbg["debug"].keys = << "pais", "nombre" >>
     /\ s.pc = "close"
     /\ Len(s.writes) = 2
     /\ s.writes[1].field = "nombre"
     /\ s.writes[2].field = "pais"

\* C15: once the process has stopped, no session is left unfinished and no
\* browser is left open: the session of the job in flight reached its end
\* and closed its browser first.
C15_ShutdownDrainsSession ==
  proc = "exited" => open = {} /\ \A o \in Owners : ~Running(o)

\* C16: every invocation of the worker callback eventually returns or
\* throws.
C16_InvocationEnds == Running("worker") ~> ~Running("worker")

\* C17: sendTelegramMessage never throws and never changes a job: each call
\* either warns and sends nothing (token or chat id missing or empty) or
\* makes exactly one fetch; a fetch that fails is logged and nothing else
\* happens: no second fetch, no further alert, no change to any job.
C17_NotifierBestEffort ==
  /\ [](/\ tg.rejected = 0
        /\ tg.warned + tg.fetches = Len(alerts)
        /\ tg.fetches = tg.inflight + tg.delivered + tg.errors
        /\ tg.inflight >= 0
        /\ (env.TELEGRAM_BOT_TOKEN \in {None, Some("")} \/ env.TELEGRAM_CHAT_ID \in {None, Some("")})
             => tg.fetches = 0 /\ tg.warned = Len(alerts)
        /\ (env.TELEGRAM_BOT_TOKEN \notin {None, Some("")} /\ env.TELEGRAM_CHAT_ID \notin {None, Some("")})
             => tg.warned = 0 /\ tg.fetches = Len(alerts)
        /\ \A id \in DOMAIN hist : EscalationsOf(id) <= 1)
  /\ [][tg' # tg /\ alerts' = alerts =>
          /\ UNCHANGED << store, waitQ, failedSet, hist, reqs >>
          /\ tg'.fetches = tg.fetches]_vars

C17_Witness ==
  /\ Len(alerts) = 1
  /\ tg.fetches = 1
  /\ tg.errors = 1
  /\ tg.inflight = 0
  /\ \E id \in DOMAIN store : store[id].state = "failed"

\* C18: the worker starts on a job only after the enqueue call of its
\* request has returned and the 202 has been produced.
C18_EnqueueReturnsBeforeAutomation ==
  \A id \in DOMAIN hist :
    hist[id].deliveries > 0 =>
      reqs[hist[id].req].pc = "done" /\ reqs[hist[id].req].status = 202

\* C19: the alert of a job that exhausted its attempts names the job's id,
\* the payload's nombre, the error of the final failure and the payload as
\* it was enqueued; for the scenario payload, failing three times, the one
\* alert holds "Ana", the job id and the payload.
C19_EscalationMessage ==
  /\ \A id \in DOMAIN store : store[id].data = reqs[hist[id].req].body[1]
  /\ \A i \in 1..Len(alerts) :
       LET a == alerts[i]
           body == reqs[hist[a.id].req].body[1]
       IN /\ a.id \in DOMAIN hist
          /\ hist[a.id].fails = 3
          /\ a.datos = body
          /\ a.error = store[a.id].failedReason
          /\ a.error \notin {"none", "ok"}
          /\ ("nombre" \in DOMAIN body /\ body["nombre"] # Str("")) => a.nombre = body["nombre"]
          /\ body = ScenarioAna =>
               /\ Len(alerts) = 1
               /\ a.nombre = Str("Ana")
               /\ a.datos = [nombre |-> Str("Ana"), apellidos |-> Str("Garcia"),
                             dni |-> Str("12345678A")]

C19_Witness ==
  /\ Len(alerts) = 1
  /\ alerts[1].id = 1
  /\ alerts[1].nombre = Str("Ana")
  /\ alerts[1].datos = ScenarioAna
  /\ alerts[1].error = "TimeoutError"

\* C20: a job's attempt count is 0 when it is enqueued, never decreases,
\* grows by one per delivery, and stays within 0..3 with the job's maximum
\* fixed at 3; a job is failed for good only with 3 attempts made, and never
\* has both succeeded and an error recorded.
C20_AttemptCount ==
  /\ [](\A id \in DOMAIN store :
          LET j == store[id]
          IN /\ j.opts.attempts = 3
             /\ 0 <= j.attemptsMade /\ j.attemptsMade <= j.opts.attempts
             /\ hist[id].deliveries = j.attemptsMade + (IF j.state = "active" THEN 1 ELSE 0)
             /\ j.state = "failed" <=> j.attemptsMade = 3
             /\ j.state = "failed" <=> j.failedReason # "none"
             /\ ~(hist[id].succeeded /\ j.failedReason # "none"))
  /\ [][\A id \in DOMAIN store' :
          IF id \in DOMAIN store
            THEN /\ store'[id].opts = store[id].opts
                 /\ store'[id].attemptsMade \in {store[id].attemptsMade, store[id].attemptsMade + 1}
                 /\ store'[id].attemptsMade = store[id].attemptsMade + 1
                      => store[id].state = "active"
            ELSE store'[id].attemptsMade = 0 /\ hist'[id].deliveries = 0]_vars

C20_Witness ==
  \E id \in DOMAIN store :
    /\ store[id].state = "failed"
    /\ store[id].attemptsMade = 3
    /\ hist[id].deliveries = 3
    /\ store[id].failedReason = "CloseError"

\* The ids in the failed set.
Archive == {failedSet[i] : i \in 1..Len(failedSet)}

\* C21: the failed set holds at most 50 jobs, each failed for good, and they
\* are the most recent terminal failures; a job that failed with attempts
\* left is scheduled again and is not in the failed set; a completed job is
\* neither in the queue nor in the failed set.
C21_ArchiveBounded ==
  /\ Len(failedSet) <= 50
  /\ Cardinality(Archive) = Len(failedSet)
  /\ Len(failedSet) = (IF TerminalFailures <= 50 THEN TerminalFailures ELSE 50)
  /\ \A id \in DOMAIN store : store[id].state = "failed" <=> id \in Archive
  /\ \A id \in Archive :
       /\ id \in DOMAIN store
       /\ hist[id].nth > TerminalFailures - 50
  /\ \A i, j \in 1..Len(failedSet) :
       i < j => hist[failedSet[i]].nth < hist[failedSet[j]].nth
  /\ \A id \in DOMAIN hist :
       /\ hist[id].nth > 0 /\ id \notin Archive =>
            id \notin DOMAIN store /\ hist[id].nth <= TerminalFailures - 50
       /\ (hist[id].fails >= 1 /\ hist[id].fails < 3 /\ ~hist[id].succeeded) =>
            /\ id \notin Archive
            /\ store[id].state \in {"delayed", "wait", "active"}
       /\ hist[id].succeeded =>
            id \notin DOMAIN store /\ ~InQueue(id) /\ id \notin Archive

C21_Witness ==
  /\ Len(failedSet) = 50
  /\ TerminalFailures = 51
  /\ failedSet[1] = 2
  /\ failedSet[50] = 51
  /\ 1 \notin DOMAIN store

\* C22: the worker callback hands its outcome to the queue only once the
\* browser of the attempt is closed, so no browser of an earlier attempt is
\* open when the outcome is reported (and the job retried or escalated) or
\* when the next delivery starts; in particular a success is reported only
\* with the browser closed.
C22_OutcomeAfterBrowserClosed ==
  /\ sess["worker"].pc = "done" => open = {}
  /\ sess["worker"].pc = "launch" => open = {}
  /\ Len(alerts) > 0 /\ ~Running("worker") => open = {}

\* C23: the session gets past the login only when the success marker is the
\* first detector to settle, by being seen.  When a detector's timeout is
\* first, or the login input is seen first, the login fails with that
\* error; and after a failed login, a failed first navigation or failed
\* credentials, the session never navigates to the new-patient page and
\* never writes a field.
C23_LoginGate ==
  \A o \in Owners :
    LET s == sess[o]
        past == \/ s.pc \in {"netidle", "nav", "anchor", "fill", "shot"}
                \/ NewPatientUrl \in s.visited
                \/ s.writes # << >>
        loginFailed == \/ s.caught \in {"CredentialsError", "AuthenticationError",
                                         "TimeoutError", "NetworkIdleError"}
                       \/ s.caught = "NavigationError" /\ s.first = NoDetector
    IN /\ past => s.first = Detector("marker", "resolved") /\ s.race = "fulfilled"
       /\ s.first \in {Detector("marker", "timeout"), Detector("input", "timeout")} =>
            s.caught = "TimeoutError" /\ s.pc \in {"catch", "close"}
       /\ s.first = Detector("input", "resolved") =>
            s.caught = "AuthenticationError" /\ s.pc \in {"catch", "close"}
       /\ loginFailed =>
            /\ s.pc \in {"catch", "close", "done"}
            /\ NewPatientUrl \notin s.visited
            /\ s.writes = << >>

C23_Witness ==
  \E o \in Owners :
    /\ sess[o].first = Detector("input", "timeout")
    /\ sess[o].marker = "resolved"
    /\ sess[o].pc = "close"
    /\ sess[o].caught = "TimeoutError"
    /\ sess[o].visited = {LoginUrl}
    /\ sess[o].plan # << >>

====
